---------------------------- MODULE Spec2Model ----------------------------
(***************************************************************************)
(* The formal integral of tardis/montecarlo/src/integrator.c.              *)
(*                                                                         *)
(* Numbers.  The C code works on doubles; the model works on integers and  *)
(* keeps every comparison the code makes exact:                            *)
(*                                                                         *)
(*  - radii, impact parameters and frequencies are integers;               *)
(*  - calculate_z carries the SQUARED half chord q = r*r - p*p, the C      *)
(*    value being sqrt(q) * C_INV * inv_t = sqrt(q) / ct with              *)
(*    ct = 1 / (C_INV * inverse_time_explosion), an integer of the model;  *)
(*  - a crossing position 1 + sqrt(q)/ct is carried as the key +q and      *)
(*    1 - sqrt(q)/ct as the key -q (OnePlus, OneMinus).  The square root   *)
(*    is monotone, so the order of the keys is the order of the positions, *)
(*    and Position comparisons against nu * position are decided exactly  *)
(*    by squaring (FreqLess, FreqLeq);                                     *)
(*  - intensities are integers, exp(-tau) is the fixed point fraction      *)
(*    2^(MaxTau - tau) / 2^MaxTau;                                         *)
(*  - trapezoid_integration returns twice the C value with the step given  *)
(*    as its numerator over N, so L is in units of 8 pi^2 / (2 N).         *)
(*                                                                         *)
(* Arrays are functions on 0-based index sets, as in C.                    *)
(***************************************************************************)
EXTENDS Integers, Sequences, FiniteSets, TLC

\* ------------------------------------------------------------- bounds
MaxR       == 6   \* largest shell radius of the geometry / ray inputs
MaxShells  == 2   \* largest number of shells
MaxLines   == 2   \* largest number of lines in the line list
MaxFreq    == 3   \* largest line rest frequency
MaxNu      == 2   \* largest spectrum frequency
MaxTau     == 1   \* largest Sobolev optical depth
DrvMaxR    == 4   \* largest shell radius of the parallel driver's inputs
MaxN       == 3   \* largest number of impact parameter samples
MaxBins    == 2   \* largest number of frequency bins (inu_size)
NThreads   == 2   \* number of threads of the parallel region

VARIABLES
  storage,    \* storage_model_t: the fields the integrator reads
  iT,         \* boundary temperature
  inu,        \* frequency grid, 0 .. inu_size-1
  att_S_ul,   \* source function table, shell * no_of_lines + line
  N,          \* number of impact parameter samples
  L,          \* the shared output array, 0 .. inu_size-1
  Lwrites,    \* history: for every slot of L the threads that stored to it, in order
  omp_todo,   \* iterations of the omp for loop not yet handed to a thread
  region,     \* "parallel" | "joined"
  pc,         \* per thread: position in the parallel region
  loc,        \* per thread: the thread-local variables of the region
  ray         \* the single ray of the ray specification

vars == <<storage, iT, inu, att_S_ul, N, L, Lwrites, omp_todo, region, pc, loc, ray>>

Threads == 1..NThreads

\* ------------------------------------------------------------- helpers
Pow2(n) == 2^n

RECURSIVE SumRange(_, _, _)
SumRange(f, lo, hi) == IF lo > hi THEN 0 ELSE f[lo] + SumRange(f, lo + 1, hi)

Abs(x) == IF x < 0 THEN -x ELSE x

\* ------------------------------------------------------------- positions
\* 1 + z and 1 - z for a squared half chord z (see the header).
OnePlus(z)  == z
OneMinus(z) == -z

\* target = nu * position(key); freq is a line's rest frequency.
\* (freq - nu) * ct  compared with  nu * sign(key) * sqrt(|key|).
FreqLess(freq, nu, key) ==
  LET a == (freq - nu) * storage.ct
  IN  IF key >= 0 THEN a < 0 \/ a * a < nu * nu * key
                  ELSE a < 0 /\ a * a > nu * nu * (-key)

FreqLeq(freq, nu, key) ==
  LET a == (freq - nu) * storage.ct
  IN  IF key >= 0 THEN a <= 0 \/ a * a <= nu * nu * key
                  ELSE a <= 0 /\ a * a >= nu * nu * (-key)

\* ------------------------------------------------------------- integrator.c:30-36
\* 2h/c^2 * nu^3 / (exp(h nu / (k T)) - 1), in units h = k = 2h/c^2 = 1, the
\* exponential to base 2 on the integer part of nu / T.
intensity_black_body(nu, T) ==
  (nu * nu * nu) \div (Pow2(nu \div T) - 1)

\* ------------------------------------------------------------- integrator.c:42-51
\* Twice the C result: (array[0] + array[N-1]) + 2 * sum of the interior, times h.
trapezoid_integration(array, h, n) ==
  ((array[0] + array[n - 1]) + 2 * SumRange(array, 1, n - 2)) * h

\* ------------------------------------------------------------- integrator.c:64-68
calculate_z(r, p) == IF r > p THEN r * r - p * p ELSE 0

\* ------------------------------------------------------------- integrator.c:83-130
\* The index arithmetic of the branch that misses the photosphere.
i_low_off_by_one(Ns, i) == Ns - i

i_low(Ns, i) == Ns - i - 1

i_up_no_double(Ns, i, offset) == Ns + i - offset

i_up(Ns, i, offset) == Ns + i - 2 * offset

hits_photosphere_strict(p) == p < storage.r_inner[0]

hits_photosphere(p) == p <= storage.r_inner[0]

\* One store oz[k] = v; oshell_id[k] = s.  `written` counts the stores per index.
ZStore(st, k, v, s) ==
  [st EXCEPT !.oz = [@ EXCEPT ![k] = v],
             !.oshell_id = [@ EXCEPT ![k] = s],
             !.written = [@ EXCEPT ![k] = @ + 1]]

RECURSIVE photosphere_loop(_, _, _)
photosphere_loop(i, p, st) ==
  IF i >= storage.no_of_shells THEN st
  ELSE photosphere_loop(i + 1, p,
         ZStore(st, i, OneMinus(calculate_z(storage.r_outer[i], p)), i))

RECURSIVE shell_loop(_, _, _)
shell_loop(i, p, st) ==
  IF i >= storage.no_of_shells THEN st
  ELSE LET z == calculate_z(storage.r_outer[i], p)
       IN  IF z = 0 THEN shell_loop(i + 1, p, st)
           ELSE LET off == IF st.offset = -1 THEN i ELSE st.offset
                    lo  == i_low(storage.no_of_shells, i)
                    up  == i_up(storage.no_of_shells, i, off)
                    s1  == ZStore([st EXCEPT !.offset = off], lo, OnePlus(z), i)
                    s2  == ZStore(s1, up, OneMinus(z), i)
                IN  shell_loop(i + 1, p, s2)

\* The buffers oz, oshell_id have 2 * no_of_shells elements; the model keeps the
\* two words that follow each of them on the stack as indices 2*Ns and 2*Ns+1.
ZIndex == 0 .. (2 * storage.no_of_shells + 1)
ZInBounds(k) == 0 <= k /\ k < 2 * storage.no_of_shells

populate_z(p, oz, oshell_id) ==
  LET st0 == [oz |-> oz, oshell_id |-> oshell_id, offset |-> -1,
              written |-> [k \in ZIndex |-> 0]]
  IN  IF hits_photosphere(p)
      THEN LET st == photosphere_loop(0, p, st0)
           IN  [count |-> storage.no_of_shells, oz |-> st.oz,
                oshell_id |-> st.oshell_id, written |-> st.written]
      ELSE LET st == shell_loop(0, p, st0)
           IN  [count |-> 2 * (storage.no_of_shells - st.offset), oz |-> st.oz,
                oshell_id |-> st.oshell_id, written |-> st.written]

\* ------------------------------------------------------------- integrator.c:136-145
\* opp[i] = R_max / (N - 1) * i; the inputs have R_max a multiple of N - 1.
calculate_p_values(n) ==
  LET R_max == storage.r_outer[storage.no_of_shells - 1]
  IN  [i \in 0 .. (n - 1) |-> (R_max \div (n - 1)) * i]

\* ------------------------------------------------------------- line_search
\* The frequency-line locator (cmontecarlo.c, outside this file): the index of
\* the first line of the descending list with frequency <= nu * position(key),
\* no_of_lines when there is none.
line_search(nu, key) ==
  LET hit == {j \in 0 .. (storage.no_of_lines - 1) :
                FreqLeq(storage.line_list_nu[j], nu, key)}
  IN  IF hit = {} THEN storage.no_of_lines
      ELSE CHOOSE j \in hit : \A k \in hit : j <= k

\* ------------------------------------------------------------- integrator.c:186-189
\* exp_tau[i] = exp(-tau[i]) as the numerator of a fraction over 2^MaxTau.
prepare_exp_tau ==
  [i \in DOMAIN storage.line_lists_tau_sobolevs |->
     Pow2(MaxTau - storage.line_lists_tau_sobolevs[i])]

\* ------------------------------------------------------------- integrator.c:206-210
initial_I_nu(nu, p) ==
  IF p <= storage.r_inner[0] THEN intensity_black_body(nu, iT) ELSE 0

\* ------------------------------------------------------------- integrator.c:238-248
\* The walk over the lines of one segment.  w.I is I_nu[p_idx]; a table read
\* outside 0 .. size_tau-1 yields the junk word and sets w.tbl_oob; w.applied
\* records every application of the recurrence.
TableRead(table, k, junk) == IF k \in DOMAIN table THEN table[k] ELSE junk

attenuate(I, e, s) == (I * e) \div Pow2(MaxTau) + s

line_end(freq, nu, key) == FreqLess(freq, nu, key)

RECURSIVE line_loop(_, _, _, _, _, _, _, _)
line_loop(j, nu, nu_end, offset, seg, exp_tau, junk, w) ==
  IF j >= storage.no_of_lines THEN w
  ELSE IF line_end(storage.line_list_nu[j], nu, nu_end) THEN w
  ELSE LET k == offset + j
           e == TableRead(exp_tau, k, junk)
           s == TableRead(att_S_ul, k, junk)
           w1 == [w EXCEPT !.I = attenuate(@, e, s),
                           !.applied = Append(@, [seg |-> seg, line |-> j,
                                                  shell |-> offset \div storage.no_of_lines]),
                           !.tbl_oob = @ \/ (k \notin DOMAIN exp_tau)]
       IN  line_loop(j + 1, nu, nu_end, offset, seg, exp_tau, junk, w1)

\* ------------------------------------------------------------- integrator.c:216-249
RECURSIVE segment_loop(_, _, _, _, _, _, _, _)
segment_loop(i, size_z, nu, z, shell_id, exp_tau, junk, w) ==
  IF i >= size_z - 1 THEN w
  ELSE LET nu_start == z[i]
           nu_end   == z[i + 1]
           offset   == shell_id[i] * storage.no_of_lines
           idx_nu_start == line_search(nu, nu_start)
           w1 == [w EXCEPT !.zread = @ \cup {i, i + 1}, !.sread = @ \cup {i}]
       IN  segment_loop(i + 1, size_z, nu, z, shell_id, exp_tau, junk,
                        line_loop(idx_nu_start, nu, nu_end, offset, i, exp_tau, junk, w1))

\* ------------------------------------------------------------- integrator.c:202-250
\* The body of the loop over p_idx for one p: populate_z, the seed, the segment
\* loop and the scaling by p.  z, shell_id are the thread's buffers on entry.
scale_by_p_omitted(I, p) == I

scale_by_p(I, p) == I * p

eval_ray(nu, p, z, shell_id, exp_tau, junk) ==
  LET pz == populate_z(p, z, shell_id)
      w0 == [I |-> initial_I_nu(nu, p), applied |-> <<>>, tbl_oob |-> FALSE,
             zread |-> {}, sread |-> {}]
      w  == segment_loop(0, pz.count, nu, pz.oz, pz.oshell_id, exp_tau, junk, w0)
  IN  [I |-> scale_by_p(w.I, p), z |-> pz.oz, shell_id |-> pz.oshell_id,
       size_z |-> pz.count, written |-> pz.written, applied |-> w.applied,
       tbl_oob |-> w.tbl_oob, zread |-> w.zread, sread |-> w.sread]

\* ------------------------------------------------------------- inputs
ShellRadii(n, maxR) ==
  {f \in [0 .. (n - 1) -> 1 .. maxR] : \A i \in 0 .. (n - 2) : f[i] < f[i + 1]}

LineLists(n) ==
  {f \in [0 .. (n - 1) -> 1 .. MaxFreq] : \A i \in 0 .. (n - 2) : f[i] > f[i + 1]}

\* Shell i > 0 starts where shell i - 1 ends; r_inner[0] is the photosphere.
\* ct > R_max: the ejecta is slower than light, every half chord is below 1.
StorageModels(maxR) ==
  { [no_of_shells |-> n, r_outer |-> ro,
     r_inner |-> [i \in 0 .. (n - 1) |-> IF i = 0 THEN ri ELSE ro[i - 1]],
     ct |-> ro[n - 1] + dc, no_of_lines |-> nl, line_list_nu |-> ll,
     line_lists_tau_sobolevs |-> [i \in 0 .. (n * nl - 1) |-> i % (MaxTau + 1)]] :
     <<n, ro, ri, dc, nl, ll>> \in
       { t \in UNION { UNION { ({n} \X ShellRadii(n, maxR) \X (1 .. maxR) \X (1 .. 2)
                                 \X {nl} \X LineLists(nl)) :
                               nl \in 1 .. MaxLines } : n \in 1 .. MaxShells } :
           t[3] < t[2][0] } }

SourceTable(st) == [i \in 0 .. (st.no_of_shells * st.no_of_lines - 1) |-> i + 1]

\* The words of a fresh stack frame hold whatever was there; the model lets
\* every uninitialised word of a thread hold the same junk word, 0 or 1.
JunkWords == {0, 1}

JunkBuffer(st, junk) == [k \in 0 .. (2 * st.no_of_shells + 1) |-> junk]

\* ------------------------------------------------------------- one ray
\* The ray specification: one call of populate_z and one walk, for any model,
\* any nu and any p the driver can hand over (0 < p <= R_max).
NoRay == [stage |-> "none"]

DriverIdle ==
  /\ L = <<>> /\ Lwrites = <<>> /\ omp_todo = {} /\ region = "none"
  /\ pc = <<>> /\ loc = <<>>

InitRay ==
  /\ storage \in StorageModels(MaxR)
  /\ att_S_ul = SourceTable(storage)
  /\ N = 2
  /\ \E nu \in 1 .. MaxNu :
       /\ inu = [k \in {0} |-> nu]
       /\ iT \in 1 .. nu
       /\ \E p \in 1 .. storage.r_outer[storage.no_of_shells - 1], junk \in JunkWords :
            ray = [stage |-> "start", nu |-> nu, p |-> p, junk |-> junk,
                   z |-> JunkBuffer(storage, junk), shell_id |-> JunkBuffer(storage, junk)]
  /\ DriverIdle

RayPopulate ==
  /\ ray.stage = "start"
  /\ LET pz == populate_z(ray.p, ray.z, ray.shell_id)
     IN  ray' = [stage |-> "populated", nu |-> ray.nu, p |-> ray.p, junk |-> ray.junk,
                 z |-> pz.oz, shell_id |-> pz.oshell_id, size_z |-> pz.count,
                 written |-> pz.written, z0 |-> ray.z, shell_id0 |-> ray.shell_id]
  /\ UNCHANGED <<storage, iT, inu, att_S_ul, N, L, Lwrites, omp_todo, region, pc, loc>>

RayWalk ==
  /\ ray.stage = "populated"
  /\ LET r == eval_ray(ray.nu, ray.p, ray.z0, ray.shell_id0, prepare_exp_tau, ray.junk)
     IN  ray' = [stage |-> "walked", nu |-> ray.nu, p |-> ray.p, junk |-> ray.junk,
                 z |-> r.z, shell_id |-> r.shell_id, size_z |-> r.size_z,
                 written |-> r.written, I |-> r.I, applied |-> r.applied,
                 tbl_oob |-> r.tbl_oob, zread |-> r.zread, sread |-> r.sread]
  /\ UNCHANGED <<storage, iT, inu, att_S_ul, N, L, Lwrites, omp_todo, region, pc, loc>>

NextRay == RayPopulate \/ RayWalk

SpecRay == InitRay /\ [][NextRay]_vars

\* ------------------------------------------------------------- integrator.c:150-260
\* _formal_integral: the parallel region.  Every thread runs LocalInit, then
\* takes iterations of the omp for loop until none is left; an iteration is the
\* loop over p_idx (one RayStep per p) followed by the store to L (Integrate).
\* The implicit barrier at the end of the region is Join.
NoLocals == [stage |-> "none"]

\* The driver's inputs: the models of outermost radius DrvMaxR with one line, and
\* the frequency grids 1, 2, .., MaxNu, 1, 2, .. of 1 to MaxBins bins.
DriverModels ==
  {st \in StorageModels(DrvMaxR) :
     /\ st.no_of_lines = 1 /\ st.line_list_nu[0] = 1
     /\ st.r_outer[st.no_of_shells - 1] = DrvMaxR
     /\ st.ct = DrvMaxR + 1}

FrequencyGrids ==
  { [k \in 0 .. (n - 1) |-> 1 + (k % MaxNu)] : n \in 1 .. MaxBins }

\* Line 159: calloc zeroes L.
Init ==
  /\ storage \in DriverModels
  /\ att_S_ul = SourceTable(storage)
  /\ inu \in FrequencyGrids
  /\ iT = 1
  /\ N \in {n \in 2 .. MaxN : storage.r_outer[storage.no_of_shells - 1] % (n - 1) = 0}
  /\ L = [k \in DOMAIN inu |-> 0]
  /\ Lwrites = [k \in DOMAIN inu |-> <<>>]
  /\ omp_todo = DOMAIN inu
  /\ region = "parallel"
  /\ pc = [t \in Threads |-> "start"]
  /\ loc = [t \in Threads |-> NoLocals]
  /\ ray = NoRay

\* Lines 169-190: the thread-local variables; I_nu, z and shell_id are not
\* initialised.
LocalInit(t) ==
  /\ pc[t] = "start"
  /\ \E junk \in JunkWords :
       loc' = [loc EXCEPT ![t] =
                 [stage |-> "for", junk |-> junk,
                  I_nu |-> [i \in 0 .. (N - 1) |-> junk],
                  z |-> JunkBuffer(storage, junk),
                  shell_id |-> JunkBuffer(storage, junk),
                  exp_tau |-> prepare_exp_tau,
                  pp |-> calculate_p_values(N),
                  nu_idx |-> -1, p_idx |-> 0]]
  /\ pc' = [pc EXCEPT ![t] = "for"]
  /\ UNCHANGED <<storage, iT, inu, att_S_ul, N, L, Lwrites, omp_todo, region, ray>>

\* Line 194: the omp for construct hands every iteration to one thread.
omp_for_keep(todo, k) == todo

omp_for_take(todo, k) == todo \ {k}

\* Lines 195-197: the thread starts iteration nu_idx.
TakeIteration(t) ==
  /\ pc[t] = "for"
  /\ \E k \in omp_todo :
       /\ omp_todo' = omp_for_take(omp_todo, k)
       /\ loc' = [loc EXCEPT ![t].nu_idx = k, ![t].p_idx = 1, ![t].stage = "ray"]
  /\ pc' = [pc EXCEPT ![t] = "ray"]
  /\ UNCHANGED <<storage, iT, inu, att_S_ul, N, L, Lwrites, region, ray>>

\* Lines 200-251: one pass of the loop over p_idx.  The fields after p_idx
\* record what the pass did (size_z and the history of eval_ray).
RayStep(t) ==
  /\ pc[t] = "ray"
  /\ LET l == loc[t]
         r == eval_ray(inu[l.nu_idx], l.pp[l.p_idx], l.z, l.shell_id, l.exp_tau, l.junk)
     IN  loc' = [loc EXCEPT ![t] =
                   [stage |-> "ray", junk |-> l.junk,
                    I_nu |-> [l.I_nu EXCEPT ![l.p_idx] = r.I],
                    z |-> r.z, shell_id |-> r.shell_id,
                    exp_tau |-> l.exp_tau, pp |-> l.pp,
                    nu_idx |-> l.nu_idx, p_idx |-> l.p_idx + 1,
                    size_z |-> r.size_z, written |-> r.written,
                    zread |-> r.zread, sread |-> r.sread, tbl_oob |-> r.tbl_oob]]
  /\ pc' = [pc EXCEPT ![t] = IF loc[t].p_idx + 1 < N THEN "ray" ELSE "integrate"]
  /\ UNCHANGED <<storage, iT, inu, att_S_ul, N, L, Lwrites, omp_todo, region, ray>>

\* Line 253: L[nu_idx] = 8 pi^2 * trapezoid_integration(I_nu, R_max/N, N).
Integrate(t) ==
  /\ pc[t] = "integrate"
  /\ L' = [L EXCEPT ![loc[t].nu_idx] =
             trapezoid_integration(loc[t].I_nu,
                                   storage.r_outer[storage.no_of_shells - 1], N)]
  /\ Lwrites' = [Lwrites EXCEPT ![loc[t].nu_idx] = Append(@, t)]
  /\ pc' = [pc EXCEPT ![t] = "for"]
  /\ UNCHANGED <<storage, iT, inu, att_S_ul, N, omp_todo, region, loc, ray>>

\* Lines 254-258: no iteration is left, the thread leaves the loop.
LeaveLoop(t) ==
  /\ pc[t] = "for"
  /\ omp_todo = {}
  /\ pc' = [pc EXCEPT ![t] = "barrier"]
  /\ UNCHANGED <<storage, iT, inu, att_S_ul, N, L, Lwrites, omp_todo, region, loc, ray>>

\* Lines 258-259: the region ends when every thread has arrived; L is returned.
Join ==
  /\ region = "parallel"
  /\ \A t \in Threads : pc[t] = "barrier"
  /\ region' = "joined"
  /\ UNCHANGED <<storage, iT, inu, att_S_ul, N, L, Lwrites, omp_todo, pc, loc, ray>>

Next ==
  \/ \E t \in Threads : LocalInit(t)
  \/ \E t \in Threads : TakeIteration(t)
  \/ \E t \in Threads : RayStep(t)
  \/ \E t \in Threads : Integrate(t)
  \/ \E t \in Threads : LeaveLoop(t)
  \/ Join

Spec == Init /\ [][Next]_vars

\* What one iteration stores in L for frequency nu when the thread's scratch is
\* I_nu, z, shell_id on entry: the loop over p_idx, then the integration.
RECURSIVE p_loop(_, _, _)
p_loop(p_idx, nu, sc) ==
  IF p_idx >= N THEN sc
  ELSE LET r == eval_ray(nu, calculate_p_values(N)[p_idx], sc.z, sc.shell_id,
                         prepare_exp_tau, sc.junk)
       IN  p_loop(p_idx + 1, nu,
                  [junk |-> sc.junk, I_nu |-> [sc.I_nu EXCEPT ![p_idx] = r.I],
                   z |-> r.z, shell_id |-> r.shell_id])

iteration_result(nu, junk) ==
  LET sc == p_loop(1, nu, [junk |-> junk, I_nu |-> [i \in 0 .. (N - 1) |-> junk],
                           z |-> JunkBuffer(storage, junk),
                           shell_id |-> JunkBuffer(storage, junk)])
  IN  trapezoid_integration(sc.I_nu, storage.r_outer[storage.no_of_shells - 1], N)

\* ------------------------------------------------------------- claims: geometry
Ns    == storage.no_of_shells
R_ph  == storage.r_inner[0]
R_max == storage.r_outer[storage.no_of_shells - 1]

Populated == ray.stage \in {"populated", "walked"}
Walked    == ray.stage = "walked"

\* The index of the first shell with r_outer > p (p < R_max).
FirstShellBeyond(p) ==
  CHOOSE i \in 0 .. (Ns - 1) :
    /\ storage.r_outer[i] > p
    /\ \A j \in 0 .. (i - 1) : storage.r_outer[j] <= p

\* Every normalized half chord sqrt(q)/ct of the model is below 1.
HalfChordsBelowOne == R_max < storage.ct

\* Positions 1 +- sqrt(|key|)/ct inside (0, 2), respectively (0, 1].
InZeroTwo(key) == Abs(key) < storage.ct * storage.ct
InZeroOne(key) == key <= 0 /\ -key < storage.ct * storage.ct

Decreasing(z, count) == \A k \in 0 .. (count - 2) : z[k] >= z[k + 1]
StrictlyDecreasing(z, count) == \A k \in 0 .. (count - 2) : z[k] > z[k + 1]

GeometryConsistent ==
  /\ ray.size_z = 2 * (Ns - FirstShellBeyond(ray.p))
  /\ \A k \in 0 .. (ray.size_z - 1) : InZeroTwo(ray.z[k])
  /\ Decreasing(ray.z, ray.size_z)

\* C3 as stated: for p strictly below the photosphere radius r_inner[0],
\* populate_z returns 2 * (N - offset) crossings, offset the first shell with
\* r_outer > p, all of them in (0, 2) and monotonically decreasing.
C3_BelowPhotosphere ==
  (Populated /\ ray.p < R_ph /\ HalfChordsBelowOne) => GeometryConsistent

\* C3 amended: the same for p strictly ABOVE the photosphere radius and below
\* the outermost radius (r_inner[0] < p < r_outer[last]).
C3_AbovePhotosphere ==
  (Populated /\ R_ph < ray.p /\ ray.p < R_max /\ HalfChordsBelowOne)
     => GeometryConsistent

C3_Witness ==
  /\ Populated /\ R_ph < ray.p /\ ray.p < R_max
  /\ Ns >= 2 /\ FirstShellBeyond(ray.p) >= 1 /\ ray.size_z = 2 * (Ns - 1)

\* C4: for p <= r_inner[0] populate_z returns exactly the number of shells,
\* stores z[i] = 1 - calculate_z(r_outer[i], p) and shell_id[i] = i for every
\* shell i (each index once, nothing else), and every z is in (0, 1].
C4_PhotosphereCase ==
  (Populated /\ ray.p <= R_ph /\ HalfChordsBelowOne) =>
     /\ ray.size_z = Ns
     /\ \A i \in 0 .. (Ns - 1) :
          /\ ray.z[i] = OneMinus(calculate_z(storage.r_outer[i], ray.p))
          /\ ray.shell_id[i] = i
          /\ ray.written[i] = 1
          /\ InZeroOne(ray.z[i])
     /\ \A k \in ZIndex : k >= Ns => ray.written[k] = 0
     /\ StrictlyDecreasing(ray.z, Ns)

C4_Witness ==
  /\ ray.stage = "populated" /\ ray.p = R_ph /\ Ns >= 2 /\ ray.size_z = Ns

\* C9: for r_inner[0] < p < r_outer[last] the count is 2 * (N - offset), the
\* far side of shell i is at index N-i-1 and its near side at N+i-2*offset,
\* every index below the count is stored exactly once and none above, the
\* sequence is strictly decreasing and the far side values come first.
C9_IndexMapping ==
  (Populated /\ R_ph < ray.p /\ ray.p < R_max) =>
     LET off == FirstShellBeyond(ray.p)
         cnt == 2 * (Ns - off)
     IN  /\ ray.size_z = cnt
         /\ \A k \in ZIndex : ray.written[k] = (IF k < cnt THEN 1 ELSE 0)
         /\ \A i \in off .. (Ns - 1) :
              /\ ray.z[Ns - i - 1] = OnePlus(calculate_z(storage.r_outer[i], ray.p))
              /\ ray.z[Ns + i - 2 * off] = OneMinus(calculate_z(storage.r_outer[i], ray.p))
              /\ ray.shell_id[Ns - i - 1] = i
              /\ ray.shell_id[Ns + i - 2 * off] = i
         /\ StrictlyDecreasing(ray.z, cnt)
         /\ \A k \in 0 .. (cnt - 1) :
              IF k < Ns - off THEN ray.z[k] > 0 ELSE ray.z[k] < 0

C9_Witness ==
  /\ ray.stage = "populated" /\ R_ph < ray.p /\ ray.p < R_max
  /\ Ns >= 2 /\ FirstShellBeyond(ray.p) = 0 /\ ray.size_z = 2 * Ns

\* The part of the ray between the crossings with keys ka, kb lies in shell s:
\* the radius along it stays between r_inner[s] and r_outer[s].  The radius at
\* a crossing is sqrt(|key| + p^2); between a far and a near crossing the ray
\* passes its closest approach p.
SegmentInShell(s, p, ka, kb) ==
  LET ra == Abs(ka) + p * p
      rb == Abs(kb) + p * p
      hi == IF ra > rb THEN ra ELSE rb
      lo == IF ka > 0 /\ kb < 0 THEN p * p ELSE IF ra < rb THEN ra ELSE rb
  IN  /\ s \in 0 .. (Ns - 1)
      /\ storage.r_inner[s] * storage.r_inner[s] <= lo
      /\ hi <= storage.r_outer[s] * storage.r_outer[s]

\* C7: for every segment i in [0, count-2] of the record populate_z returns,
\* shell_id[i] is the shell the part of the ray between z[i] and z[i+1] lies in.
C7_SegmentShell ==
  (Populated /\ ray.p < R_max) =>
     \A i \in 0 .. (ray.size_z - 2) :
        SegmentInShell(ray.shell_id[i], ray.p, ray.z[i], ray.z[i + 1])

\* ------------------------------------------------------------- claims: recurrence
LineIdx == 0 .. (storage.no_of_lines - 1)

\* nu * z[i+1] <= freq <= nu * z[i]
InClosedWindow(j, i) ==
  /\ FreqLeq(storage.line_list_nu[j], ray.nu, ray.z[i])
  /\ ~FreqLess(storage.line_list_nu[j], ray.nu, ray.z[i + 1])

\* nu * z[i+1] <= freq < nu * z[i]
InHalfOpenWindow(j, i) ==
  /\ FreqLess(storage.line_list_nu[j], ray.nu, ray.z[i])
  /\ ~FreqLess(storage.line_list_nu[j], ray.nu, ray.z[i + 1])

AppliedIn(j, i) ==
  \E a \in 1 .. Len(ray.applied) : ray.applied[a].seg = i /\ ray.applied[a].line = j

Seed == IF ray.p <= R_ph THEN intensity_black_body(ray.nu, iT) ELSE 0

NoLineCrossed ==
  \A i \in 0 .. (ray.size_z - 2) : \A j \in LineIdx : ~InClosedWindow(j, i)

C5_WitnessDark ==
  /\ Walked /\ NoLineCrossed /\ ray.size_z >= 4 /\ ray.p > R_ph /\ ray.I = 0

\* The lines are applied in strictly descending rest frequency, none twice.
DescendingOnce ==
  \A a, b \in 1 .. Len(ray.applied) :
     a < b => storage.line_list_nu[ray.applied[a].line]
                > storage.line_list_nu[ray.applied[b].line]

\* Segment i applies exactly the lines of [nu*z[i+1], nu*z[i]).
ExactHalfOpenWindows ==
  \A i \in 0 .. (ray.size_z - 2) : \A j \in LineIdx :
     AppliedIn(j, i) <=> InHalfOpenWindow(j, i)

\* C8: along one ray the recurrence is applied to the lines in strictly
\* descending rest frequency, segment i applying exactly the lines with rest
\* frequency in [nu*z[i+1], nu*z[i]), and no line is applied twice.
C8_DescendingHalfOpen ==
  (Walked /\ ray.p < R_max) => (DescendingOnce /\ ExactHalfOpenWindows)

\* The order alone: a line on a crossing shared by two segments.
C8_OrderOnly == (Walked /\ ray.p < R_max) => DescendingOnce

\* What the walk does: segment i applies exactly the lines of the closed
\* window, in the order of the list.
ClosedWindowsApplied ==
  (Walked /\ ray.p < R_max) =>
     /\ \A i \in 0 .. (ray.size_z - 2) : \A j \in LineIdx :
          AppliedIn(j, i) <=> InClosedWindow(j, i)
     /\ \A a, b \in 1 .. Len(ray.applied) :
          a < b => storage.line_list_nu[ray.applied[a].line]
                     >= storage.line_list_nu[ray.applied[b].line]

\* ------------------------------------------------------------- claims: parallel driver
Bins == DOMAIN inu

\* C1: the value stored in L[nu_idx] depends only on the inputs and the index:
\* whatever the thread's scratch (I_nu, z, shell_id) held when the iteration
\* started, the iteration stores the same value.
C1_ScratchIndependent ==
  region = "joined" =>
     \A k \in Bins : \A junk \in JunkWords : L[k] = iteration_result(inu[k], junk)

InIteration(t) == pc[t] \in {"ray", "integrate"}

\* C2: no two threads ever store to the same slot of L (no slot is stored to
\* twice, no two threads are in the same iteration, a slot is untouched while
\* its iteration runs), and after the join every slot was stored exactly once.
C2_DisjointWrites ==
  /\ \A k \in Bins : Len(Lwrites[k]) <= 1
  /\ \A t1, t2 \in Threads :
       (t1 # t2 /\ InIteration(t1) /\ InIteration(t2))
          => loc[t1].nu_idx # loc[t2].nu_idx
  /\ \A t \in Threads : InIteration(t) => Lwrites[loc[t].nu_idx] = <<>>
  /\ region = "joined" => \A k \in Bins : Len(Lwrites[k]) = 1

C2_Witness ==
  /\ region = "joined"
  /\ Cardinality(Bins) >= 2
  /\ Lwrites[0] = <<2>> /\ Lwrites[1] = <<1>>

\* A pass of the loop over p_idx has been made by thread t.
RayDone(t) == loc[t].stage = "ray" /\ loc[t].p_idx > 1

RaySafe(l) ==
  LET own == {k \in ZIndex : k < l.size_z /\ ZInBounds(k) /\ l.written[k] >= 1}
  IN  /\ 0 <= l.size_z /\ l.size_z <= 2 * Ns
      /\ l.zread \subseteq own
      /\ l.sread \subseteq own
      /\ \A k \in l.sread : l.shell_id[k] \in 0 .. (Ns - 1)
      /\ ~l.tbl_oob

\* C6: for every sample pp[p_idx], 1 <= p_idx <= N-1, the count is within
\* 0 .. 2*no_of_shells, the segment loop reads z and shell_id only at indices
\* below the count that this call of populate_z stored, every shell_id used is
\* a shell index and no table access is out of range.
C6_RayInBounds ==
  \A t \in Threads : RayDone(t) => RaySafe(loc[t])

\* The same for the samples below R_max: only the last sample breaks it.
C6_BelowRmax ==
  \A t \in Threads :
     (RayDone(t) /\ loc[t].pp[loc[t].p_idx - 1] < R_max) => RaySafe(loc[t])

\* C10: whenever trapezoid_integration is called, I_nu[0] holds 0.
C10_LeftSampleZero ==
  \A t \in Threads : pc[t] = "integrate" => loc[t].I_nu[0] = 0

=============================================================================
